---- MODULE Spec2Model ----
(***************************************************************************)
(* Model of the Huffman image codec of src/p.cpp: frequency count, tree    *)
(* construction over a min-priority queue, code generation, bit packing    *)
(* into the container file, unpacking, and tree-driven decoding.           *)
(*                                                                         *)
(* Pointers are indices into the arena `nodes` (allocation order); Nil is  *)
(* nullptr.  Bit strings (std::string of '0'/'1') are sequences over 0..1. *)
(***************************************************************************)
EXTENDS Integers, Sequences, FiniteSets, TLC

\* ---------------------------------------------------------------- bounds
MaxSym == 3
MaxLen == 5
MaxBits == 10
MaxCount == 3
MaxDecBits == 4

Symbols == 0..MaxSym

\* ------------------------------------------------------ program constants
Nil == 0
ByteBits == 8

VARIABLES pc, image, width, height, freq, nodes, minHeap, root, huffmanCode,
          compressedData, file, bitsCount, readCompressedData,
          currentNode, pos, decompressedImage, status

vars == <<pc, image, width, height, freq, nodes, minHeap, root, huffmanCode,
          compressedData, file, bitsCount, readCompressedData,
          currentNode, pos, decompressedImage, status>>

\* ---------------------------------------------------------------- helpers
Min(a, b) == IF a < b THEN a ELSE b

EmptyMap == [x \in {} |-> 0]

\* m[k] = v of std::unordered_map
Put(m, k, v) == [x \in (DOMAIN m) \cup {k} |-> IF x = k THEN v ELSE m[x]]

BitSeqs(n) == UNION {[1..k -> {0, 1}] : k \in 0..n}

RECURSIVE SetToSeq(_)
SetToSeq(S) ==
    IF S = {} THEN <<>>
    ELSE LET m == CHOOSE x \in S : \A y \in S : x <= y
         IN  <<m>> \o SetToSeq(S \ {m})

RECURSIVE SumFreq(_, _)
SumFreq(f, S) ==
    IF S = {} THEN 0
    ELSE LET s == CHOOSE x \in S : TRUE
         IN  f[s] + SumFreq(f, S \ {s})

\* Node(unsigned char p, int f)
Node(p, f) == [pixel |-> p, freq |-> f, left |-> Nil, right |-> Nil]

IsLeaf(arena, n) == arena[n].left = Nil /\ arena[n].right = Nil

\* ------------------------------------------------------------ main: count
CountOf(img, p) == Cardinality({i \in DOMAIN img : img[i] = p})

CountFreq ==
    /\ pc # <<>> /\ Head(pc) = "count"
    /\ freq' = [p \in {image[i] : i \in DOMAIN image} |-> CountOf(image, p)]
    /\ pc' = Tail(pc)
    /\ UNCHANGED <<image, width, height, nodes, minHeap, root, huffmanCode,
                   compressedData, file, bitsCount, readCompressedData,
                   currentNode, pos, decompressedImage, status>>

\* ------------------------------------------------------- buildHuffmanTree
\* The seeding loop: one leaf per entry of freq.  The iteration order of the
\* unordered_map only fixes which address each leaf gets; leaves are
\* allocated here in ascending symbol order.
SeedHeap ==
    /\ pc # <<>> /\ Head(pc) = "build"
    /\ LET syms == SetToSeq(DOMAIN freq)
       IN  /\ nodes' = [i \in 1..Len(syms) |-> Node(syms[i], freq[syms[i]])]
           /\ minHeap' = 1..Len(syms)
    /\ pc' = <<"merge">> \o Tail(pc)
    /\ UNCHANGED <<image, width, height, freq, root, huffmanCode,
                   compressedData, file, bitsCount, readCompressedData,
                   currentNode, pos, decompressedImage, status>>

\* Compare with the comparison turned round: top() hands out a heaviest node.
TopCandidates_MaxFirst(arena, heap) ==
    {n \in heap : \A m \in heap : ~(arena[n].freq < arena[m].freq)}

\* Compare: the nodes top() may return, any node no other node is below.
TopCandidates(arena, heap) ==
    {n \in heap : \A m \in heap : ~(arena[n].freq > arena[m].freq)}

\* the merged node takes the frequency of its left child only
SumNode_LeftOnly(arena, l, r) ==
    [pixel |-> 0, freq |-> arena[l].freq, left |-> l, right |-> r]

\* new Node(0, left->freq + right->freq); sum->left = left; sum->right = right
SumNode(arena, l, r) ==
    [pixel |-> 0, freq |-> arena[l].freq + arena[r].freq,
     left |-> l, right |-> r]

Merge ==
    /\ pc # <<>> /\ Head(pc) = "merge"
    /\ Cardinality(minHeap) > 1
    /\ \E l \in TopCandidates(nodes, minHeap) :
         \E r \in TopCandidates(nodes, minHeap \ {l}) :
            /\ nodes' = Append(nodes, SumNode(nodes, l, r))
            /\ minHeap' = (minHeap \ {l, r}) \cup {Len(nodes) + 1}
    /\ UNCHANGED <<pc, image, width, height, freq, root, huffmanCode,
                   compressedData, file, bitsCount, readCompressedData,
                   currentNode, pos, decompressedImage, status>>

\* return minHeap.top() with one node left
ReturnRoot ==
    /\ pc # <<>> /\ Head(pc) = "merge"
    /\ Cardinality(minHeap) = 1
    /\ root' = CHOOSE n \in minHeap : TRUE
    /\ pc' = Tail(pc)
    /\ UNCHANGED <<image, width, height, freq, nodes, minHeap, huffmanCode,
                   compressedData, file, bitsCount, readCompressedData,
                   currentNode, pos, decompressedImage, status>>

\* return minHeap.top() on an empty queue: undefined behaviour.  The read
\* of the front of an empty vector either faults or yields a null pointer.
ReturnRootEmpty ==
    /\ pc # <<>> /\ Head(pc) = "merge"
    /\ minHeap = {}
    /\ status' = "ub_top_of_empty_queue"
    /\ \/ pc' = <<"crash">> /\ root' = root
       \/ pc' = Tail(pc) /\ root' = Nil
    /\ UNCHANGED <<image, width, height, freq, nodes, minHeap, huffmanCode,
                   compressedData, file, bitsCount, readCompressedData,
                   currentNode, pos, decompressedImage>>

\* --------------------------------------------------- generateHuffmanCodes
\* the walk with "0" appended on both descents
RECURSIVE generateHuffmanCodes_SameBit(_, _, _, _)
generateHuffmanCodes_SameBit(arena, n, str, hc) ==
    IF n = Nil THEN hc
    ELSE LET hc1 == IF arena[n].pixel # 0
                    THEN Put(hc, arena[n].pixel, str) ELSE hc
             hc2 == generateHuffmanCodes_SameBit(arena, arena[n].left,
                                                 str \o <<0>>, hc1)
         IN  generateHuffmanCodes_SameBit(arena, arena[n].right,
                                          str \o <<0>>, hc2)

\* Depth-first walk: a code is stored at every node whose pixel is not 0,
\* "0" is appended going left and "1" going right.
RECURSIVE generateHuffmanCodes(_, _, _, _)
generateHuffmanCodes(arena, n, str, hc) ==
    IF n = Nil THEN hc
    ELSE LET hc1 == IF arena[n].pixel # 0
                    THEN Put(hc, arena[n].pixel, str) ELSE hc
             hc2 == generateHuffmanCodes(arena, arena[n].left,
                                         str \o <<0>>, hc1)
         IN  generateHuffmanCodes(arena, arena[n].right, str \o <<1>>, hc2)

Generate ==
    /\ pc # <<>> /\ Head(pc) = "generate"
    /\ huffmanCode' = generateHuffmanCodes(nodes, root, <<>>, EmptyMap)
    /\ pc' = Tail(pc)
    /\ UNCHANGED <<image, width, height, freq, nodes, minHeap, root,
                   compressedData, file, bitsCount, readCompressedData,
                   currentNode, pos, decompressedImage, status>>

\* ----------------------------------------------------------- main: encode
\* huffmanCode[pixel] of std::unordered_map: a missing key is inserted with
\* the empty string.
Lookup(hc, p) == IF p \in DOMAIN hc THEN hc[p] ELSE <<>>

RECURSIVE Concat(_, _, _)
Concat(hc, img, i) ==
    IF i > Len(img) THEN <<>>
    ELSE Lookup(hc, img[i]) \o Concat(hc, img, i + 1)

Encode ==
    /\ pc # <<>> /\ Head(pc) = "encode"
    /\ compressedData' = Concat(huffmanCode, image, 1)
    /\ huffmanCode' = [p \in (DOMAIN huffmanCode) \cup
                                {image[i] : i \in DOMAIN image} |->
                          Lookup(huffmanCode, p)]
    /\ pc' = Tail(pc)
    /\ UNCHANGED <<image, width, height, freq, nodes, minHeap, root,
                   file, bitsCount, readCompressedData,
                   currentNode, pos, decompressedImage, status>>

\* -------------------------------------------------------- writeCompressed
\* std::string::substr(pos, n), pos counted from 0
Substr(s, p, n) == SubSeq(s, p + 1, Min(p + n, Len(s)))

\* std::bitset<8>(string).to_ulong(): the LAST character is bit 0, so a
\* string shorter than 8 fills the low-order positions.
RECURSIVE BitsetFromString(_)
BitsetFromString(s) ==
    IF s = <<>> THEN 0
    ELSE 2 * BitsetFromString(SubSeq(s, 1, Len(s) - 1)) + s[Len(s)]

RECURSIVE PackLoop(_, _)
PackLoop(data, i) ==
    IF i < Len(data)
    THEN <<BitsetFromString(Substr(data, i, ByteBits))>>
             \o PackLoop(data, i + ByteBits)
    ELSE <<>>

WriteCompressed ==
    /\ pc # <<>> /\ Head(pc) = "write"
    /\ file' = [bitsCount |-> Len(compressedData),
                width |-> width, height |-> height,
                payload |-> PackLoop(compressedData, 0)]
    /\ pc' = Tail(pc)
    /\ UNCHANGED <<image, width, height, freq, nodes, minHeap, root,
                   huffmanCode, compressedData, bitsCount,
                   readCompressedData, currentNode, pos, decompressedImage,
                   status>>

\* --------------------------------------------------------- readCompressed
\* std::bitset<8>(byte).to_string(): eight characters, bit 7 first
BitsetToString(b) ==
    [i \in 1..ByteBits |-> (b \div (2 ^ (ByteBits - i))) % 2]

\* std::string::replace(pos, n, t): the n characters from pos (fewer when
\* the string ends first) are replaced by the whole of t.
Replace(s, p, n, t) ==
    SubSeq(s, 1, p) \o t \o SubSeq(s, p + Min(n, Len(s) - p) + 1, Len(s))

RECURSIVE UnpackLoop(_, _, _, _)
UnpackLoop(data, payload, i, count) ==
    IF i < count
    THEN UnpackLoop(Replace(data, i, ByteBits,
                            BitsetToString(payload[(i \div ByteBits) + 1])),
                    payload, i + ByteBits, count)
    ELSE data

ReadCompressed ==
    /\ pc # <<>> /\ Head(pc) = "read"
    /\ bitsCount' = file.bitsCount
    /\ width' = file.width
    /\ height' = file.height
    /\ readCompressedData' =
          UnpackLoop([i \in 1..file.bitsCount |-> 0], file.payload, 0,
                     file.bitsCount)
    /\ pc' = Tail(pc)
    /\ UNCHANGED <<image, freq, nodes, minHeap, root, huffmanCode,
                   compressedData, file, currentNode, pos,
                   decompressedImage, status>>

\* -------------------------------------------------------- decompressImage
DecodeEnter ==
    /\ pc # <<>> /\ Head(pc) = "decode"
    /\ currentNode' = root
    /\ pos' = 1
    /\ decompressedImage' = <<>>
    /\ pc' = <<"decodeLoop">> \o Tail(pc)
    /\ UNCHANGED <<image, width, height, freq, nodes, minHeap, root,
                   huffmanCode, compressedData, file, bitsCount,
                   readCompressedData, status>>

\* the child the bit selects
Step(arena, n, bit) == IF bit = 0 THEN arena[n].left ELSE arena[n].right

\* one iteration of the loop in which no null pointer is dereferenced
DecodeBit ==
    /\ pc # <<>> /\ Head(pc) = "decodeLoop"
    /\ pos <= Len(readCompressedData)
    /\ currentNode # Nil
    /\ LET next == Step(nodes, currentNode, readCompressedData[pos])
       IN  /\ next # Nil
           /\ IF nodes[next].pixel # 0
              THEN /\ decompressedImage' =
                         Append(decompressedImage, nodes[next].pixel)
                   /\ currentNode' = root
              ELSE /\ decompressedImage' = decompressedImage
                   /\ currentNode' = next
    /\ pos' = pos + 1
    /\ UNCHANGED <<pc, image, width, height, freq, nodes, minHeap, root,
                   huffmanCode, compressedData, file, bitsCount,
                   readCompressedData, status>>

\* one iteration that dereferences a null pointer (the cursor is null, or
\* the child it moves to is null and its pixel is read): undefined
\* behaviour.  The build either faults, or reads some byte as the pixel.
DecodeNullDeref ==
    /\ pc # <<>> /\ Head(pc) = "decodeLoop"
    /\ pos <= Len(readCompressedData)
    /\ IF currentNode = Nil THEN TRUE
       ELSE Step(nodes, currentNode, readCompressedData[pos]) = Nil
    /\ status' = "ub_null_deref"
    /\ \/ /\ pc' = <<"crash">>
          /\ UNCHANGED <<currentNode, pos, decompressedImage>>
       \/ /\ pc' = pc
          /\ pos' = pos + 1
          /\ \E g \in Symbols :
                IF g # 0
                THEN /\ decompressedImage' = Append(decompressedImage, g)
                     /\ currentNode' = root
                ELSE /\ decompressedImage' = decompressedImage
                     /\ currentNode' = Nil
    /\ UNCHANGED <<image, width, height, freq, nodes, minHeap, root,
                   huffmanCode, compressedData, file, bitsCount,
                   readCompressedData>>

DecodeReturn ==
    /\ pc # <<>> /\ Head(pc) = "decodeLoop"
    /\ pos > Len(readCompressedData)
    /\ pc' = Tail(pc)
    /\ UNCHANGED <<image, width, height, freq, nodes, minHeap, root,
                   huffmanCode, compressedData, file, bitsCount,
                   readCompressedData, currentNode, pos, decompressedImage,
                   status>>

\* ------------------------------------------------------------ the pipeline
\* State shared by every start: nothing allocated, nothing written.
Blank ==
    /\ nodes = <<>> /\ minHeap = {} /\ root = Nil
    /\ huffmanCode = EmptyMap
    /\ file = [bitsCount |-> 0, width |-> 0, height |-> 0, payload |-> <<>>]
    /\ bitsCount = 0
    /\ currentNode = Nil /\ pos = 1 /\ decompressedImage = <<>>
    /\ status = "ok"

\* main after readPGM succeeded: image holds width * height samples.
Init ==
    /\ pc = <<"count", "build", "generate", "encode", "write", "read",
              "decode">>
    /\ image \in UNION {[1..k -> Symbols] : k \in 0..MaxLen}
    /\ width \in {1, Len(image)} /\ height \in {1, Len(image)}
    /\ width * height = Len(image)
    /\ freq = EmptyMap
    /\ compressedData = <<>> /\ readCompressedData = <<>>
    /\ Blank

Next ==
    \/ CountFreq
    \/ SeedHeap
    \/ Merge
    \/ ReturnRoot
    \/ ReturnRootEmpty
    \/ Generate
    \/ Encode
    \/ WriteCompressed
    \/ ReadCompressed
    \/ DecodeEnter
    \/ DecodeBit
    \/ DecodeNullDeref
    \/ DecodeReturn

Spec == Init /\ [][Next]_vars

\* ------------------------------------------- other entries into the codec
\* writeCompressed followed by readCompressed on an arbitrary bit string.
InitPack ==
    /\ pc = <<"write", "read">>
    /\ compressedData \in BitSeqs(MaxBits)
    /\ width \in {1, MaxLen} /\ height \in {1, MaxLen}
    /\ image = <<>> /\ freq = EmptyMap
    /\ readCompressedData = <<>>
    /\ Blank

NextPack ==
    \/ WriteCompressed
    \/ ReadCompressed

SpecPack == InitPack /\ [][NextPack]_vars

\* Frequency tables over the bounded alphabet, at least one symbol.
FreqTables ==
    UNION {[D -> 1..MaxCount] : D \in (SUBSET Symbols) \ {{}}}

\* buildHuffmanTree on a frequency table, then decompressImage on an
\* arbitrary bit string (a container that was damaged or cut short).
InitDecode ==
    /\ pc = <<"build", "decode">>
    /\ freq \in FreqTables
    /\ readCompressedData \in BitSeqs(MaxDecBits)
    /\ image = <<>> /\ width = 0 /\ height = 0
    /\ compressedData = <<>>
    /\ Blank

NextDecode ==
    \/ SeedHeap
    \/ Merge
    \/ ReturnRoot
    \/ DecodeEnter
    \/ DecodeBit
    \/ DecodeNullDeref
    \/ DecodeReturn

SpecDecode == InitDecode /\ [][NextDecode]_vars

\* The reference alphabet A..F with the counts 5, 9, 12, 13, 16, 45, the
\* counts given to the six letters in any order.
RefSymbols == 65..70
RefCounts == {5, 9, 12, 13, 16, 45}
RefTables ==
    {f \in [RefSymbols -> RefCounts] : {f[s] : s \in RefSymbols} = RefCounts}

\* buildHuffmanTree then generateHuffmanCodes on a frequency table: every
\* table over the bounded alphabet, and the reference tables.
InitBuild ==
    /\ pc = <<"build", "generate">>
    /\ freq \in FreqTables \cup RefTables
    /\ image = <<>> /\ width = 0 /\ height = 0
    /\ compressedData = <<>> /\ readCompressedData = <<>>
    /\ Blank

NextBuild ==
    \/ SeedHeap
    \/ Merge
    \/ ReturnRoot
    \/ Generate

SpecBuild == InitBuild /\ [][NextBuild]_vars

\* ============================================================= properties
RECURSIVE NodesUnder(_, _)
NodesUnder(arena, n) ==
    IF n = Nil THEN {}
    ELSE {n} \cup NodesUnder(arena, arena[n].left)
             \cup NodesUnder(arena, arena[n].right)

\* nodes met by a walk of the subtree, a shared node counted every time
RECURSIVE WalkCount(_, _)
WalkCount(arena, n) ==
    IF n = Nil THEN 0
    ELSE 1 + WalkCount(arena, arena[n].left)
           + WalkCount(arena, arena[n].right)

LeavesUnder(arena, n) == {m \in NodesUnder(arena, n) : IsLeaf(arena, m)}

RECURSIVE SumRootFreq(_, _)
SumRootFreq(arena, S) ==
    IF S = {} THEN 0
    ELSE LET h == CHOOSE x \in S : TRUE
         IN  arena[h].freq + SumRootFreq(arena, S \ {h})

IsPrefix(a, b) == Len(a) <= Len(b) /\ SubSeq(b, 1, Len(a)) = a

Running(label) == pc # <<>> /\ Head(pc) = label

NumSymbols == Cardinality(DOMAIN freq)
NumSamples == SumFreq(freq, DOMAIN freq)

\* C1: when main has run to its end, the decoded sample sequence equals the
\* input sample sequence, and main does not fault on the way.
C1_RoundTrip ==
    /\ pc # <<"crash">>
    /\ pc = <<>> => decompressedImage = image

\* C2: readCompressed of the file written by writeCompressed returns a bit
\* string of the original length, equal to the original bit for bit.
C2_PackUnpackIdentity ==
    pc = <<>> =>
        /\ bitsCount = Len(compressedData)
        /\ Len(readCompressedData) = Len(compressedData)
        /\ readCompressedData = compressedData

\* bit k (0 = least significant) of byte b
BitOf(b, k) == (b \div (2 ^ k)) % 2

\* C3: the written file holds bitCount = L, width, height and ceil(L/8)
\* payload bytes; bit i of the input is bit 7 - (i mod 8) of byte i div 8,
\* and the unused low-order bits of the last byte are 0.
C3_ContainerLayout ==
    (pc = <<"read">> \/ pc = <<>>) =>
        LET L == Len(compressedData) IN
        /\ file.bitsCount = L
        /\ file.width = width
        /\ file.height = height
        /\ Len(file.payload) = (L + ByteBits - 1) \div ByteBits
        /\ \A i \in 0..(L - 1) :
              BitOf(file.payload[(i \div ByteBits) + 1],
                    ByteBits - 1 - (i % ByteBits)) = compressedData[i + 1]
        /\ \A i \in L..(ByteBits * Len(file.payload) - 1) :
              BitOf(file.payload[(i \div ByteBits) + 1],
                    ByteBits - 1 - (i % ByteBits)) = 0

\* C4: after generateHuffmanCodes on the tree of a non-empty frequency
\* table, every symbol of the table has a code, of length at least 1.
C4_CodeTableComplete ==
    (pc = <<>> /\ DOMAIN freq # {}) =>
        \A s \in DOMAIN freq :
            /\ s \in DOMAIN huffmanCode
            /\ Len(huffmanCode[s]) >= 1

\* C5: in the code table generateHuffmanCodes leaves, no code of a symbol
\* is a prefix of the code of another symbol.
C5_PrefixFree ==
    pc = <<>> =>
        \A a \in DOMAIN huffmanCode : \A b \in DOMAIN huffmanCode :
            a # b => /\ ~IsPrefix(huffmanCode[a], huffmanCode[b])
                     /\ ~IsPrefix(huffmanCode[b], huffmanCode[a])

C5_Witness ==
    /\ pc = <<>>
    /\ Cardinality(DOMAIN huffmanCode) >= 3
    /\ \E a \in DOMAIN huffmanCode : \E b \in DOMAIN huffmanCode :
          Len(huffmanCode[a]) < Len(huffmanCode[b])

RECURSIVE WeightedLength(_, _, _)
WeightedLength(f, hc, S) ==
    IF S = {} THEN 0
    ELSE LET s == CHOOSE x \in S : TRUE
         IN  f[s] * Len(hc[s]) + WeightedLength(f, hc, S \ {s})

\* C6: for the reference counts 5, 9, 12, 13, 16, 45, whichever node the
\* queue hands out among equal frequencies, every symbol gets a code and
\* the sum of count times code length is 224.
C6_ReferenceLength ==
    (pc = <<>> /\ {freq[s] : s \in DOMAIN freq} = RefCounts) =>
        /\ DOMAIN huffmanCode = DOMAIN freq
        /\ WeightedLength(freq, huffmanCode, DOMAIN freq) = 224

C6_Witness ==
    /\ pc = <<>>
    /\ {freq[s] : s \in DOMAIN freq} = RefCounts
    /\ Cardinality(DOMAIN huffmanCode) = 6
    /\ \E s \in DOMAIN freq : freq[s] = 45 /\ Len(huffmanCode[s]) = 1
    /\ \E s \in DOMAIN freq : freq[s] = 5 /\ Len(huffmanCode[s]) = 4

\* C7: when decompressImage has consumed every bit of a stream over a tree
\* of at least two leaves and the cursor rests on an internal node other
\* than the root, the caller is given a CorruptBitstream failure.
C7_CorruptDetected ==
    (/\ pc = <<>>
     /\ NumSymbols >= 2
     /\ currentNode # Nil
     /\ currentNode # root
     /\ ~IsLeaf(nodes, currentNode)) => status = "CorruptBitstream"

\* C8: with an empty frequency table the pipeline never reads the top of
\* the empty queue; it stops with EmptyAlphabet and builds nothing.
C8_EmptyAlphabet ==
    (DOMAIN freq = {} /\ ~Running("count")) =>
        /\ status # "ub_top_of_empty_queue"
        /\ (~Running("build") /\ ~Running("merge")) =>
              /\ status = "EmptyAlphabet"
              /\ root = Nil /\ huffmanCode = EmptyMap
              /\ file.payload = <<>> /\ file.bitsCount = 0

\* the queued nodes are roots of disjoint strict binary trees over the
\* symbols of freq
QueuedTreesOK ==
    /\ \A h \in minHeap :
          /\ h \in 1..Len(nodes)
          /\ WalkCount(nodes, h) = Cardinality(NodesUnder(nodes, h))
          /\ \A m \in NodesUnder(nodes, h) :
                \/ IsLeaf(nodes, m)
                \/ /\ nodes[m].left # Nil /\ nodes[m].right # Nil
                   /\ nodes[m].left # nodes[m].right
                   /\ nodes[m].freq = nodes[nodes[m].left].freq
                                        + nodes[nodes[m].right].freq
                   /\ nodes[nodes[m].left].freq <= nodes[nodes[m].right].freq
    /\ \A h1 \in minHeap : \A h2 \in minHeap :
          h1 # h2 => NodesUnder(nodes, h1) \cap NodesUnder(nodes, h2) = {}
    /\ LET leaves == UNION {LeavesUnder(nodes, h) : h \in minHeap}
       IN  /\ Cardinality(leaves) = NumSymbols
           /\ {<<nodes[m].pixel, nodes[m].freq>> : m \in leaves}
                 = {<<s, freq[s]>> : s \in DOMAIN freq}
    /\ SumRootFreq(nodes, minHeap) = NumSamples

\* C9: at every iteration of the merge loop the queue holds the roots of
\* pairwise disjoint strict binary trees (left child no heavier than the
\* right) whose leaves are the n symbols with their counts and whose root
\* frequencies sum to N; each merge shortens the queue by one, and the loop
\* ends after n - 1 merges with one node of frequency N and n leaves.
C9_TreeConstruction ==
    /\ (Running("merge") /\ NumSymbols >= 1) =>
          /\ QueuedTreesOK
          /\ Cardinality(minHeap) = NumSymbols - (Len(nodes) - NumSymbols)
    /\ root # Nil =>
          /\ minHeap = {root}
          /\ QueuedTreesOK
          /\ nodes[root].freq = NumSamples
          /\ Cardinality(LeavesUnder(nodes, root)) = NumSymbols
          /\ Len(nodes) - NumSymbols = NumSymbols - 1

C9_Witness ==
    /\ Running("merge")
    /\ NumSymbols = 4
    /\ Cardinality(minHeap) = 2
    /\ \E h \in minHeap : Cardinality(LeavesUnder(nodes, h)) = 3

\* C10: in main, on a non-empty image, the decode cursor is a node of the
\* tree before and after every bit, no null pointer is dereferenced, and
\* the cursor never rests on a leaf it reached (it is back at the root).
C10_CursorSafe ==
    Len(image) >= 1 =>
        /\ status # "ub_null_deref"
        /\ Running("decodeLoop") =>
              /\ currentNode \in 1..Len(nodes)
              /\ IsLeaf(nodes, currentNode) => currentNode = root

====
